---- MODULE Spec2Model ----
(***************************************************************************)
(* The deduplication ledger and the request handlers of the movie poster   *)
(* bot (src/handlers/channel_handler.py, src/handlers/user_handler.py,     *)
(* src/handlers/ids.py, src/database/movie_data.py).                        *)
(*                                                                         *)
(* Titles are sequences of tokens.  A token stands for one word of an      *)
(* extracted title; Lower and IsQuality say what str.lower() and the       *)
(* quality patterns of config.py do to it.  Extracted titles are already   *)
(* trimmed and whitespace-collapsed (file_detector.py), so str.strip() on  *)
(* them removes nothing and is not modelled separately.                    *)
(*                                                                         *)
(* The handlers are coroutines on one asyncio event loop: a handler runs   *)
(* without interruption from one await of the transport (client.send_photo,*)
(* reply_text, edit_text) to the next.  The ledger checks and the calls of *)
(* pymongo and of the metadata providers are synchronous, so they are part *)
(* of the step that reaches them.                                          *)
(*                                                                         *)
(* The functions that take no part in the ledger (the interactive search,  *)
(* the resolution of the channel flow, the title extractor of              *)
(* src/utils/file_detector.py) are applied one call at a time to arguments *)
(* drawn from bounded sets: the variable applied holds the call and, once  *)
(* it has returned, its result.                                            *)
(***************************************************************************)
EXTENDS Integers, Sequences, FiniteSets, TLC

\* ---------------------------------------------------------------- bounds
\* The clock counts ticks up to MaxTime.
MaxTime == 3
\* CACHE_CONFIG of config.py, scaled down so that cooldown expiry and
\* eviction happen within the bounds (3600 s, 3600 s, 1000 and 100 there).
movie_cooldown == 2
series_cooldown == 2
max_cache_entries == 2
cleanup_batch_size == 1
\* The providers return at most MaxResults records to one search; the
\* search asks the second provider below min_primary_results records and
\* returns at most max_candidates (10 and 50 in user_handler.py).
MaxResults == 2
min_primary_results == 2
max_candidates == 2
\* One pass calls a method of a provider at most MaxCalls times.
MaxCalls == 2
\* A text has at most MaxTokens tokens.
MaxTokens == 3

\* ---------------------------------------------------------------- inputs
MovieTitles == { <<"Dune">>, <<"dune", "1080p">>, <<"Heat">> }
SeriesNames == { <<"Lost">>, <<"lost">>, << >> }
Seasons == {1, 2}

\* str.lower() on one token
Lower(tok) ==
    CASE tok = "Dune" -> "dune"
      [] tok = "Heat" -> "heat"
      [] tok = "Lost" -> "lost"
      [] OTHER -> tok

\* a token matched by QUALITY_PATTERNS / COMMON_INDICATORS_PATTERN
IsQuality(tok) == tok \in {"1080p", "720p", "bluray"}

\* title.lower().strip() on an extracted title
LowerStrip(title) == [i \in 1..Len(title) |-> Lower(title[i])]

KeepWord(tok) == ~IsQuality(tok)

\* _clean_title_for_comparison: quality tokens removed, whitespace
\* collapsed, lower-cased
_clean_title_for_comparison(title) == LowerStrip(SelectSeq(title, KeepWord))

\* f"movie_{clean_title}" and f"{series_name}_s{season}"
MovieKey(title) == [kind |-> "movie", name |-> _clean_title_for_comparison(title), season |-> 0]
SeriesKey(series_name, season) == [kind |-> "series", name |-> series_name, season |-> season]

\* ------------------------------------------------------------- variables
VARIABLES
    now,                      \* time.time(), in ticks
    store,                    \* "ok", "raising" (operations raise), "none" (not connected)
    POST_TO_CHANNEL,          \* config.POST_TO_CHANNEL
    recently_processed,       \* channel_handler.recently_processed, in insertion order
    processed_series_cache,   \* channel_handler.processed_series_cache
    user_series_cache,        \* user_handler.processed_series_cache
    user_sessions,            \* user_handler.user_sessions of the one user
    series_collection,        \* the processed_series collection
    req,                      \* the handlers suspended at an await of a send
    lastCall,                 \* what the ledger check of the last step saw and returned
    lastDone,                 \* the request that ended in the last step
    applied                   \* the function the last step applied: arguments and result

vars == <<now, store, POST_TO_CHANNEL, recently_processed, processed_series_cache,
          user_series_cache, user_sessions, series_collection, req,
          lastCall, lastDone, applied>>

\* no function is being applied: the handlers run
NoApply == [fn |-> "none"]

\* the handlers that can be suspended at the same time
Req == {"a", "b"}

NoKey == [kind |-> "none", name |-> << >>, season |-> 0]

NoSession == [live |-> FALSE, original_title |-> << >>]

Idle == [flow |-> "none", kind |-> "none", title |-> << >>, season |-> 0,
         pc |-> "idle", check |-> "none"]

NoCall == [op |-> "none", flow |-> "none", key |-> NoKey, name |-> << >>, season |-> 0,
           ret |-> FALSE, cached |-> FALSE, evicted |-> 0]

NoDone == [flow |-> "none", kind |-> "none", title |-> << >>, season |-> 0,
           check |-> "none", queried |-> FALSE, rendered |-> FALSE,
           tried |-> 0, sent |-> 0, commit |-> "none", out |-> "none",
           report |-> "none"]

\* ------------------------------------------------------------- the dict
\* A Python dict keeps insertion order; assigning to a key it holds keeps
\* the key's place.
Keys(d) == { d[i].k : i \in 1..Len(d) }
Has(d, k) == k \in Keys(d)
Get(d, k) == (CHOOSE i \in 1..Len(d) : d[i].k = k)
TimeOf(d, k) == d[Get(d, k)].t

\* a check that does not record what it accepted
ForgetEntry(d, k, t) == d

\* recently_processed[key] = current_time
SetEntry(d, k, t) ==
    IF Has(d, k) THEN [d EXCEPT ![Get(d, k)] = [k |-> k, t |-> t]]
    ELSE Append(d, [k |-> k, t |-> t])

IsFirstOldest(d, i) ==
    /\ \A j \in 1..Len(d) : d[i].t <= d[j].t
    /\ \A j \in 1..(i - 1) : d[j].t > d[i].t

DropAt(d, i) == [j \in 1..(Len(d) - 1) |-> IF j < i THEN d[j] ELSE d[j + 1]]

\* the sort reversed: the newest n keys
RECURSIVE NewestFirst(_, _)
NewestFirst(d, n) ==
    IF n = 0 \/ Len(d) = 0 THEN {}
    ELSE LET i == CHOOSE i \in 1..Len(d) : \A j \in 1..Len(d) : d[j].t <= d[i].t
         IN {d[i].k} \cup NewestFirst(DropAt(d, i), n - 1)

\* sorted(recently_processed.keys(), key=lambda k: recently_processed[k])[:n]
\* (sorted is stable: equal timestamps keep insertion order)
RECURSIVE OldestKeys(_, _)
OldestKeys(d, n) ==
    IF n = 0 \/ Len(d) = 0 THEN {}
    ELSE LET i == CHOOSE i \in 1..Len(d) : IsFirstOldest(d, i)
         IN {d[i].k} \cup OldestKeys(DropAt(d, i), n - 1)

\* for key in oldest_keys: del recently_processed[key]
DelKeys(d, ks) == SelectSeq(d, LAMBDA e : e.k \notin ks)

\* the clean-up of _should_process_movie
CleanUp(d) ==
    IF Len(d) > max_cache_entries
    THEN DelKeys(d, OldestKeys(d, cleanup_batch_size))
    ELSE d

\* the comparison off by one: <= for <
WithinLax(last, current, cooldown) == current - last <= cooldown

\* current_time - last_processed < cooldown
Within(last, current, cooldown) == current - last < cooldown

\* a check that writes the time of the call also when it rejects
_should_process_movie_refreshing(movie_title) ==
    LET movie_key == MovieKey(movie_title)
    IN IF Has(recently_processed, movie_key)
          /\ Within(TimeOf(recently_processed, movie_key), now, movie_cooldown)
       THEN [ret |-> FALSE, rp |-> SetEntry(recently_processed, movie_key, now)]
       ELSE [ret |-> TRUE,
             rp |-> CleanUp(SetEntry(recently_processed, movie_key, now))]

\* _should_process_movie: the returned value and the cache it leaves
_should_process_movie(movie_title) ==
    LET movie_key == MovieKey(movie_title)
    IN IF Has(recently_processed, movie_key)
          /\ Within(TimeOf(recently_processed, movie_key), now, movie_cooldown)
       THEN [ret |-> FALSE, rp |-> recently_processed]
       ELSE [ret |-> TRUE,
             rp |-> CleanUp(SetEntry(recently_processed, movie_key, now))]

\* ---------------------------------------------------------- the database
Row(series_name, season) == [series_name |-> series_name, season |-> season]

\* a check that never consults the collection
is_series_processed_blind(series_name, season) == FALSE

\* a check that fails closed: True when the collection cannot be asked
is_series_processed_closed(series_name, season) ==
    IF store # "ok" THEN TRUE
    ELSE Row(LowerStrip(series_name), season) \in series_collection

\* MovieDataManager.is_series_processed: False when the collection is None
\* or find_one raises
is_series_processed(series_name, season) ==
    IF store # "ok" THEN FALSE
    ELSE Row(LowerStrip(series_name), season) \in series_collection

\* MovieDataManager.mark_series_processed: nothing is inserted when the
\* collection is None or insert_one raises.  The collection is only ever
\* asked whether a row exists, so it is kept as the set of its rows.
mark_series_processed(series_name, season) ==
    IF store # "ok" THEN series_collection
    ELSE series_collection \cup {Row(LowerStrip(series_name), season)}

\* what mark_as_processed and mark_series_processed write to the log when
\* they are called: log.debug after the write, log.error when the write
\* raises, and nothing when the collection is None ("return")
commit_log ==
    CASE store = "ok" -> "debug"
      [] store = "raising" -> "error"
      [] OTHER -> "none"

\* ------------------------------------------------------ the series checks
\* channel_handler._should_process_series: the returned value and the
\* caches it leaves
_should_process_series(name, season) ==
    LET series_name == LowerStrip(name)
        series_key == SeriesKey(series_name, season)
        same == [ret |-> FALSE, rp |-> recently_processed, psc |-> processed_series_cache]
    IN IF series_name = << >> THEN [same EXCEPT !.ret = TRUE]
       ELSE IF is_series_processed(series_name, season) THEN same
       ELSE IF series_key \in processed_series_cache THEN same
       ELSE IF Has(recently_processed, series_key)
               /\ Within(TimeOf(recently_processed, series_key), now, series_cooldown)
            THEN same
       ELSE [ret |-> TRUE,
             rp |-> SetEntry(recently_processed, series_key, now),
             psc |-> processed_series_cache \cup {series_key}]

\* user_handler._should_process_series
user_should_process_series(name, season) ==
    LET series_name == LowerStrip(name)
        series_key == SeriesKey(series_name, season)
        same == [ret |-> FALSE, psc |-> user_series_cache]
    IN IF series_name = << >> THEN [same EXCEPT !.ret = TRUE]
       ELSE IF is_series_processed(series_name, season) THEN same
       ELSE IF series_key \in user_series_cache THEN same
       ELSE [ret |-> TRUE, psc |-> user_series_cache \cup {series_key}]

\* ------------------------------------------------------ what a step shows
MovieCall(title, c) ==
    [op |-> "movie", flow |-> "channel", key |-> MovieKey(title), name |-> title,
     season |-> 0, ret |-> c.ret, cached |-> Has(recently_processed, MovieKey(title)),
     evicted |-> IF c.ret
                 THEN Len(SetEntry(recently_processed, MovieKey(title), now)) - Len(c.rp)
                 ELSE 0]

SeriesCall(flow, name, season, c) ==
    LET key == SeriesKey(LowerStrip(name), season)
    IN [op |-> "series", flow |-> flow, key |-> key, name |-> name, season |-> season,
        ret |-> c.ret,
        cached |-> IF flow = "channel"
                   THEN key \in processed_series_cache \/ Has(recently_processed, key)
                   ELSE key \in user_series_cache,
        evicted |-> 0]

Done(q, queried, rendered, tried, sent, commit, out) ==
    [flow |-> q.flow, kind |-> q.kind, title |-> q.title, season |-> q.season,
     check |-> q.check, queried |-> queried, rendered |-> rendered,
     tried |-> tried, sent |-> sent, commit |-> commit, out |-> out,
     report |-> IF commit = "none" THEN "none" ELSE commit_log]

Request(flow, kind, title, season, pc, check) ==
    [flow |-> flow, kind |-> kind, title |-> title, season |-> season,
     pc |-> pc, check |-> check]

Checked(ret) == IF ret THEN "true" ELSE "false"

\* a handler that ignores what the check returned
ProceedsAnyway(ret) == TRUE

\* "if await _should_process_...(...):" of handle_channel_message and of
\* handle_private_message
Proceeds(ret) == ret

\* the outcomes of provider resolution followed by generate_poster:
\* a record was found and rendered, nothing was found, or one of them raised
Resolutions == {"found", "notfound", "error"}

\* ------------------------------------------------------- the channel flow
\* handle_channel_message with a movie title, up to the await of the send
ChannelMovie(r, title, res) ==
    /\ req[r] = Idle
    /\ LET c == _should_process_movie(title)
           q == Request("channel", "movie", title, 0, "send", Checked(c.ret))
       IN /\ recently_processed' = c.rp
          /\ lastCall' = MovieCall(title, c)
          /\ IF ~Proceeds(c.ret)
             THEN /\ res = "notfound"
                  /\ req' = req
                  /\ lastDone' = Done(q, FALSE, FALSE, 0, 0, "none", "skipped")
             ELSE IF res = "found"
             THEN /\ req' = [req EXCEPT ![r] = q]
                  /\ lastDone' = NoDone
             ELSE /\ req' = req
                  /\ lastDone' = Done(q, TRUE, FALSE, 0, 0, "none", res)
    /\ UNCHANGED <<applied, now, store, POST_TO_CHANNEL, processed_series_cache,
                   user_series_cache, user_sessions, series_collection>>

\* handle_channel_message with a series title, up to the await of the send
ChannelSeries(r, name, season, res) ==
    /\ req[r] = Idle
    /\ LET c == _should_process_series(name, season)
           q == Request("channel", "series", name, season, "send", Checked(c.ret))
       IN /\ recently_processed' = c.rp
          /\ processed_series_cache' = c.psc
          /\ lastCall' = SeriesCall("channel", name, season, c)
          /\ IF ~Proceeds(c.ret)
             THEN /\ res = "notfound"
                  /\ req' = req
                  /\ lastDone' = Done(q, FALSE, FALSE, 0, 0, "none", "skipped")
             ELSE IF name = << >>
             THEN \* _process_tv_series: "Could not extract series name"
                  /\ res = "notfound"
                  /\ req' = req
                  /\ lastDone' = Done(q, FALSE, FALSE, 0, 0, "none", "noname")
             ELSE IF res = "found"
             THEN /\ req' = [req EXCEPT ![r] = q]
                  /\ lastDone' = NoDone
             ELSE /\ req' = req
                  /\ lastDone' = Done(q, TRUE, FALSE, 0, 0, "none", res)
    /\ UNCHANGED <<applied, now, store, POST_TO_CHANNEL, user_series_cache, user_sessions,
                   series_collection>>

\* ------------------------------------------------------- the private flow
\* handle_private_message with a series title, up to the await of the send
PrivateSeries(r, name, season, res) ==
    /\ req[r] = Idle
    /\ LET c == user_should_process_series(name, season)
           q == Request("private", "series", name, season, "send", Checked(c.ret))
       IN /\ user_series_cache' = c.psc
          /\ lastCall' = SeriesCall("private", name, season, c)
          /\ IF ~Proceeds(c.ret)
             THEN /\ res = "notfound"
                  /\ req' = req
                  /\ lastDone' = Done(q, FALSE, FALSE, 0, 0, "none", "skipped")
             ELSE IF res = "found" /\ name # << >>
             THEN /\ req' = [req EXCEPT ![r] = q]
                  /\ lastDone' = NoDone
             ELSE \* nothing found (no provider has a hit for an empty name),
                  \* or the search or generate_poster raised
                  /\ res # "found"
                  /\ req' = req
                  /\ lastDone' = Done(q, TRUE, FALSE, 0, 0, "none", res)
    /\ UNCHANGED <<applied, now, store, POST_TO_CHANNEL, recently_processed,
                   processed_series_cache, user_sessions, series_collection>>

\* handle_private_message with a movie title: _handle_movie_selection
\* searches and stores the session of the user
PrivateMovie(title, res) ==
    LET q == Request("private", "movie", title, 0, "idle", "none")
    IN /\ user_sessions' = IF res = "found"
                           THEN [live |-> TRUE, original_title |-> title]
                           ELSE user_sessions
       /\ lastDone' = Done(q, TRUE, FALSE, 0, 0, "none",
                           IF res = "found" THEN "listed" ELSE res)
       /\ lastCall' = NoCall
       /\ UNCHANGED <<applied, now, store, POST_TO_CHANNEL, recently_processed,
                      processed_series_cache, user_series_cache, series_collection,
                      req>>

\* handle_movie_selection_callback with select_movie data, up to the await
\* of the send
SelectCallback(r, res) ==
    /\ req[r] = Idle
    /\ LET session == user_sessions
           q == Request("select", "movie", session.original_title, 0, "send", "none")
       IN IF ~session.live
          THEN /\ res = "notfound"
               /\ req' = req
               /\ lastDone' = Done(q, FALSE, FALSE, 0, 0, "none", "expired")
          ELSE IF res = "found"
          THEN /\ req' = [req EXCEPT ![r] = q]
               /\ lastDone' = NoDone
          ELSE /\ req' = req
               /\ lastDone' = Done(q, TRUE, FALSE, 0, 0, "none", res)
    /\ lastCall' = NoCall
    /\ UNCHANGED <<applied, now, store, POST_TO_CHANNEL, recently_processed,
                   processed_series_cache, user_series_cache, user_sessions,
                   series_collection>>

\* ----------------------------------------------------------- the /id flow
\* _process_id_sending, up to the await of the send
IdSend(r, title, res) ==
    /\ req[r] = Idle
    /\ LET q == Request("id", "movie", title, 0, "send", "none")
       IN IF res = "found"
          THEN /\ req' = [req EXCEPT ![r] = q]
               /\ lastDone' = NoDone
          ELSE /\ req' = req
               /\ lastDone' = Done(q, TRUE, FALSE, 0, 0, "none", res)
    /\ lastCall' = NoCall
    /\ UNCHANGED <<applied, now, store, POST_TO_CHANNEL, recently_processed,
                   processed_series_cache, user_series_cache, user_sessions,
                   series_collection>>

\* ------------------------------------------------- the awaits of the sends
InFlight(r) == req[r].pc \in {"send", "fallback"}

\* The statements after the sends: mark_series_processed and
\* mark_movie_processed, and the removal of the session by the selection
\* callback.  mark_movie_processed writes the movie_requests log, which no
\* ledger check reads; the step reports it in lastDone.commit.
Commit(q) ==
    /\ series_collection' = IF q.kind = "series"
                            THEN mark_series_processed(q.title, q.season)
                            ELSE series_collection
    /\ user_sessions' = IF q.flow = "select" THEN NoSession ELSE user_sessions

NoCommit == UNCHANGED <<series_collection, user_sessions>>

\* the awaited send returns, and so does the edit_text that follows it in
\* the private flows
SendOk(r) ==
    /\ req[r].pc = "send"
    /\ Commit(req[r])
    /\ lastDone' = Done(req[r], TRUE, TRUE, 1, 1, req[r].kind, "sent")
    /\ req' = [req EXCEPT ![r] = Idle]
    /\ lastCall' = NoCall
    /\ UNCHANGED <<applied, now, store, POST_TO_CHANNEL, recently_processed,
                   processed_series_cache, user_series_cache>>

\* the awaited send returns and the edit_text after it raises
\* (_handle_series_request, handle_movie_selection_callback): "raise e"
EditFail(r) ==
    /\ req[r].pc = "send"
    /\ req[r].flow \in {"private", "select"}
    /\ NoCommit
    /\ lastDone' = Done(req[r], TRUE, TRUE, 1, 1, "none", "error")
    /\ req' = [req EXCEPT ![r] = Idle]
    /\ lastCall' = NoCall
    /\ UNCHANGED <<applied, now, store, POST_TO_CHANNEL, recently_processed,
                   processed_series_cache, user_series_cache>>

\* the awaited send raises: the channel flow with POST_TO_CHANNEL false goes
\* on to _send_to_database_channel, every other flow ends in its handler
SendFail(r) ==
    /\ req[r].pc = "send"
    /\ NoCommit
    /\ IF req[r].flow = "channel" /\ ~POST_TO_CHANNEL
       THEN /\ req' = [req EXCEPT ![r].pc = "fallback"]
            /\ lastDone' = NoDone
       ELSE /\ req' = [req EXCEPT ![r] = Idle]
            /\ lastDone' = Done(req[r], TRUE, TRUE, 1, 0, "none", "error")
    /\ lastCall' = NoCall
    /\ UNCHANGED <<applied, now, store, POST_TO_CHANNEL, recently_processed,
                   processed_series_cache, user_series_cache>>

\* _send_to_database_channel returns: it sent, or it caught and logged its
\* own failure; _process_movie and _process_tv_series go on either way
Fallback(r, ok) ==
    /\ req[r].pc = "fallback"
    /\ Commit(req[r])
    /\ lastDone' = Done(req[r], TRUE, TRUE, 2, IF ok THEN 1 ELSE 0, req[r].kind,
                        IF ok THEN "sent" ELSE "sendfail")
    /\ req' = [req EXCEPT ![r] = Idle]
    /\ lastCall' = NoCall
    /\ UNCHANGED <<applied, now, store, POST_TO_CHANNEL, recently_processed,
                   processed_series_cache, user_series_cache>>

\* ------------------------------------------------------- the environment
Quiet == lastCall' = NoCall /\ lastDone' = NoDone

Tick ==
    /\ now < MaxTime
    /\ now' = now + 1
    /\ Quiet
    /\ UNCHANGED <<applied, store, POST_TO_CHANNEL, recently_processed, processed_series_cache,
                   user_series_cache, user_sessions, series_collection, req>>

\* the store starts raising (connection lost) and recovers
StoreDown ==
    /\ store = "ok"
    /\ store' = "raising"
    /\ Quiet
    /\ UNCHANGED <<applied, now, POST_TO_CHANNEL, recently_processed, processed_series_cache,
                   user_series_cache, user_sessions, series_collection, req>>

StoreUp ==
    /\ store = "raising"
    /\ store' = "ok"
    /\ Quiet
    /\ UNCHANGED <<applied, now, POST_TO_CHANNEL, recently_processed, processed_series_cache,
                   user_series_cache, user_sessions, series_collection, req>>

\* the process restarts: the module dictionaries start empty, the store is
\* connected or not (MongoDBClient.connect), the collections persist
Restart ==
    /\ store' \in {"ok", "none"}
    /\ recently_processed' = << >>
    /\ processed_series_cache' = {}
    /\ user_series_cache' = {}
    /\ user_sessions' = NoSession
    /\ req' = [r \in Req |-> Idle]
    /\ Quiet
    /\ UNCHANGED <<applied, now, POST_TO_CHANNEL, series_collection>>

Stopped ==
    /\ now = 0
    /\ store \in {"ok", "none"}
    /\ POST_TO_CHANNEL \in BOOLEAN
    /\ recently_processed = << >>
    /\ processed_series_cache = {}
    /\ user_series_cache = {}
    /\ user_sessions = NoSession
    /\ series_collection = {}
    /\ req = [r \in Req |-> Idle]
    /\ lastCall = NoCall
    /\ lastDone = NoDone

\* ------------------------------------------------------------ the search
\* The interactive search (user_handler._search_with_imdb_primary and
\* MovieSearcher.search_media).  The adapters of imdb_api.py and tmdb_api.py
\* catch their own exceptions and return a list; what they return is the
\* input here.  A record has the fields the search reads; its title is one
\* token, or NoTitle where the provider sent "name": null (item.get('name',
\* '') is then None and _extract_year_from_imdb_item gives 'Unknown').
NoTitle == "None"

\* a record of imdb_api._search_imdb_direct, already in the standard form
ImdbRecord(title, year, media_type) ==
    [id |-> "tt", title |-> title, release_year |-> year,
     media_type |-> media_type, source |-> "imdb"]

\* a row of tmdb_api.search_movies / search_tv_series
TmdbRow(title, year) == [id |-> "7", name |-> title, release_year |-> year]

\* the conversion of a TMDB row to the standard form
Standard(result, media_type) ==
    [id |-> result.id, title |-> result.name, release_year |-> result.release_year,
     media_type |-> media_type, source |-> "tmdb"]

Convert(rows, media_type) == [i \in 1..Len(rows) |-> Standard(rows[i], media_type)]

ImdbRecords ==
    { ImdbRecord("Dune", "2021", "movie"), ImdbRecord("dune", "2021", "tv"),
      ImdbRecord("Heat", "2021", "movie"), ImdbRecord(NoTitle, "Unknown", "movie") }
TmdbTvRows == { TmdbRow("Dune", "2021"), TmdbRow("Heat", "2021") }
TmdbMovieRows == { TmdbRow("Dune", "2021"), TmdbRow("Dune", "1984"), TmdbRow("Heat", "2021") }

\* the lists of at most n different elements of S
Lists(S, n) ==
    { s \in UNION { [1..k -> S] : k \in 0..n } :
        \A i, j \in 1..Len(s) : i # j => s[i] # s[j] }

\* list[:n]
Take(list, n) == SubSeq(list, 1, IF n < Len(list) THEN (IF n < 0 THEN 0 ELSE n) ELSE Len(list))

\* f"{result['title'].lower()}_{result.get('release_year', 'unknown')}"
DedupKey(result) == <<Lower(result.title), result.release_year>>

\* result['title'].lower() raises AttributeError on a title that is None
Malformed(results) == \E i \in 1..Len(results) : results[i].title = NoTitle

RECURSIVE UniqueFrom(_, _, _)
\* the loop of _remove_duplicates from position i on, seen being its set
UniqueFrom(results, i, seen) ==
    IF i > Len(results) THEN << >>
    ELSE IF DedupKey(results[i]) \in seen THEN UniqueFrom(results, i + 1, seen)
    ELSE <<results[i]>> \o UniqueFrom(results, i + 1, seen \cup {DedupKey(results[i])})

\* _remove_duplicates of user_handler.py and of MovieSearcher, on results
\* that are not Malformed
_remove_duplicates(results) == UniqueFrom(results, 1, {})

\* _fallback_to_tmdb_only: TMDB alone, and the list as it is
_fallback_to_tmdb_only(is_series, tmdb_tv, tmdb_movies) ==
    [results |-> Take((IF is_series THEN Convert(tmdb_tv, "tv") ELSE << >>)
                         \o Convert(tmdb_movies, "movie"), max_candidates),
     queried |-> (IF is_series THEN <<"tmdb_tv">> ELSE << >>) \o <<"tmdb_movies">>]

\* "if len(all_results) < 10" with no bound on the count
AlwaysFew(all_results, minimum) == TRUE

\* "if len(all_results) < 10" and "if len(all_results) < limit"
Few(all_results, minimum) == Len(all_results) < minimum

\* _search_with_imdb_primary.  imdb is what the IMDB stage returns
\* (search_tv_series and search_movie for a series, else unified_search).
\* The result is the list returned, the providers queried in order, and
\* whether the except branch ran.
_search_with_imdb_primary(use_imdb, is_series, imdb, tmdb_tv, tmdb_movies) ==
    LET primary == IF use_imdb THEN imdb ELSE << >>
        few == Few(primary, min_primary_results)
        all_results ==
            IF few
            THEN primary \o (IF is_series THEN Convert(tmdb_tv, "tv") ELSE << >>)
                         \o Convert(tmdb_movies, "movie")
            ELSE primary
        queried ==
            (IF use_imdb THEN <<"imdb">> ELSE << >>)
            \o (IF few THEN (IF is_series THEN <<"tmdb_tv">> ELSE << >>) \o <<"tmdb_movies">>
                ELSE << >>)
        fallback == _fallback_to_tmdb_only(is_series, tmdb_tv, tmdb_movies)
    IN IF Malformed(all_results)
       THEN [results |-> fallback.results, queried |-> queried \o fallback.queried,
             raised |-> TRUE, escaped |-> FALSE]
       ELSE [results |-> Take(_remove_duplicates(all_results), max_candidates),
             queried |-> queried, raised |-> FALSE, escaped |-> FALSE]

\* MovieSearcher.search_media: the TMDB searches are asked for the rows that
\* are missing; nothing catches what _remove_duplicates raises
search_media(media_type, limit, imdb, tmdb_tv, tmdb_movies) ==
    LET few == Few(imdb, limit)
        tv == IF few /\ media_type \in {"tv", "auto"}
              THEN Convert(Take(tmdb_tv, limit - Len(imdb)), "tv") ELSE << >>
        movies == IF few /\ media_type \in {"movie", "auto"}
                  THEN Convert(Take(tmdb_movies, limit - Len(imdb) - Len(tv)), "movie")
                  ELSE << >>
        all_results == imdb \o tv \o movies
        queried ==
            <<"imdb">>
            \o (IF few /\ media_type \in {"tv", "auto"} THEN <<"tmdb_tv">> ELSE << >>)
            \o (IF few /\ media_type \in {"movie", "auto"} THEN <<"tmdb_movies">> ELSE << >>)
    IN IF Malformed(all_results)
       THEN [results |-> << >>, queried |-> queried, raised |-> TRUE, escaped |-> TRUE]
       ELSE [results |-> Take(_remove_duplicates(all_results), limit),
             queried |-> queried, raised |-> FALSE, escaped |-> FALSE]

\* the searches a step can apply, with their arguments
SearchCalls ==
    { [fn |-> "_search_with_imdb_primary", done |-> FALSE, use_imdb |-> u,
       is_series |-> s, imdb |-> i, tmdb_tv |-> t, tmdb_movies |-> m]
        : u \in BOOLEAN, s \in BOOLEAN, i \in Lists(ImdbRecords, MaxResults),
          t \in Lists(TmdbTvRows, 1), m \in Lists(TmdbMovieRows, MaxResults) }
MediaCalls ==
    { [fn |-> "search_media", done |-> FALSE, media_type |-> k, limit |-> l,
       imdb |-> i, tmdb_tv |-> t, tmdb_movies |-> m]
        : k \in {"auto", "tv", "movie"}, l \in 1..min_primary_results,
          i \in Lists(ImdbRecords, MaxResults),
          t \in Lists(TmdbTvRows, 1), m \in Lists(TmdbMovieRows, MaxResults) }

\* everything but applied
handlers == <<now, store, POST_TO_CHANNEL, recently_processed, processed_series_cache,
              user_series_cache, user_sessions, series_collection, req,
              lastCall, lastDone>>

\* the step that runs a function on the arguments in applied
Returns(out) ==
    /\ ~applied.done
    /\ applied' = [a \in DOMAIN applied \cup {"out"} |->
                     IF a = "out" THEN out ELSE IF a = "done" THEN TRUE ELSE applied[a]]
    /\ UNCHANGED handlers

PrivateSearch ==
    /\ applied.fn = "_search_with_imdb_primary"
    /\ Returns(_search_with_imdb_primary(applied.use_imdb, applied.is_series,
                                         applied.imdb, applied.tmdb_tv, applied.tmdb_movies))

MediaSearch ==
    /\ applied.fn = "search_media"
    /\ Returns(search_media(applied.media_type, applied.limit,
                            applied.imdb, applied.tmdb_tv, applied.tmdb_movies))

\* ------------------------------------------------- the channel resolution
\* One pass of the channel flow from the search to the renderer
\* (_process_movie and _process_tv_series up to generate_poster).  What the
\* providers answer is the input.  An answer is a record with the fields the
\* handlers read, Nothing for None, or Raised where the call raises:
\* tmdb_api.get_media_by_title has no try of its own (unified_search sorts
\* the rows by vote_count + popularity), every other method called here
\* catches what it raises and returns None or an empty list.
Media(media_type, title, poster_url) ==
    [media_type |-> media_type, title |-> title, poster_url |-> poster_url]
Nothing == Media("none", "", "")
Raised == Media("raises", "", "")
Found(data) == data # Nothing /\ data # Raised

\* the answers of get_movie_by_title / get_media_by_title, and of a search
\* for TV series followed by the fetch of the details of its first row
TitleAnswers ==
    { Nothing, Media("movie", "Dune", "url"), Media("tv", "Dune", "url"),
      Media("movie", "Dune", "") }
FirstRow(hit, details) == [hit |-> hit, details |-> details]
ImdbTvAnswers ==
    { FirstRow(FALSE, Nothing), FirstRow(TRUE, Nothing),
      FirstRow(TRUE, Media("tv", "Lost", "url")), FirstRow(TRUE, Media("movie", "Lost", "url")) }
TmdbTvAnswers ==
    { FirstRow(FALSE, Nothing), FirstRow(TRUE, Nothing),
      FirstRow(TRUE, Media("tv", "Lost", "url")), FirstRow(TRUE, Media("tv", "", "url")) }

\* one entry of the log of the provider calls of a pass
Call(provider, method) == <<provider, method>>

\* what a search returns: the record or Nothing, the calls made, and whether
\* an exception left the function
Resolved(data, queried) == [data |-> data, queried |-> queried, escaped |-> FALSE]
Escaped(queried) == [data |-> Nothing, queried |-> queried, escaped |-> TRUE]

\* tmdb_api.get_media_by_title_with_fallback, tmdb and imdb being the
\* answers its two calls get
get_media_by_title_with_fallback(use_imdb, tmdb, imdb) ==
    LET first == <<Call("tmdb", "get_media_by_title")>>
    IN IF tmdb = Raised THEN Resolved(Nothing, first)
       ELSE IF Found(tmdb) THEN Resolved(tmdb, first)
       ELSE IF use_imdb
       THEN Resolved(imdb, first \o <<Call("imdb", "get_movie_by_title")>>)
       ELSE Resolved(Nothing, first)

\* _search_movie_with_imdb_primary.  imdb_title[k] and tmdb_title[k] are the
\* answers to the k-th call of imdb_api.get_movie_by_title and of
\* tmdb_api.get_media_by_title in the pass.
_search_movie_with_imdb_primary(use_imdb, imdb_title, tmdb_title) ==
    LET step1 == IF use_imdb THEN <<Call("imdb", "get_movie_by_title")>> ELSE << >>
        step2 == step1 \o <<Call("tmdb", "get_media_by_title")>>
        step3 == get_media_by_title_with_fallback(use_imdb, tmdb_title[2], imdb_title[2])
    IN IF use_imdb /\ Found(imdb_title[1]) THEN Resolved(imdb_title[1], step1)
       ELSE IF tmdb_title[1] = Raised
       THEN \* except: "return tmdb_api.get_media_by_title(movie_title, year)"
            IF tmdb_title[2] = Raised
            THEN Escaped(step2 \o <<Call("tmdb", "get_media_by_title")>>)
            ELSE Resolved(tmdb_title[2], step2 \o <<Call("tmdb", "get_media_by_title")>>)
       ELSE IF Found(tmdb_title[1]) THEN Resolved(tmdb_title[1], step2)
       ELSE Resolved(step3.data, step2 \o step3.queried)

\* _search_tv_series_with_imdb_primary
_search_tv_series_with_imdb_primary(use_imdb, imdb_tv, tmdb_title, tmdb_tv) ==
    LET step1 ==
            IF use_imdb
            THEN <<Call("imdb", "search_tv_series")>>
                 \o (IF imdb_tv.hit THEN <<Call("imdb", "get_movie_details")>> ELSE << >>)
            ELSE << >>
        step2 == step1 \o <<Call("tmdb", "get_media_by_title")>>
        step3 == step2 \o <<Call("tmdb", "search_tv_series")>>
                       \o (IF tmdb_tv.hit THEN <<Call("tmdb", "get_tv_series_details")>>
                           ELSE << >>)
    IN IF use_imdb /\ imdb_tv.hit /\ imdb_tv.details.media_type = "tv"
       THEN Resolved(imdb_tv.details, step1)
       ELSE IF tmdb_title[1] = Raised
       THEN IF tmdb_title[2] = Raised
            THEN Escaped(step2 \o <<Call("tmdb", "get_media_by_title")>>)
            ELSE Resolved(tmdb_title[2], step2 \o <<Call("tmdb", "get_media_by_title")>>)
       ELSE IF tmdb_title[1].media_type = "tv" THEN Resolved(tmdb_title[1], step2)
       ELSE IF tmdb_tv.hit THEN Resolved(tmdb_tv.details, step3)
       ELSE Resolved(Nothing, step3)

\* How a pass ends before the await of the send: out is "render" when
\* generate_poster was called with data, "notfound", "incomplete" or "error";
\* message is the message sent to the user or the channel on the way out,
\* log the level of the log entry, requeried whether the providers were asked
\* again for the wanted kind.
Pass(search, out, data, requeried, message, level) ==
    [queried |-> search.queried, escaped |-> search.escaped, out |-> out, data |-> data,
     requeried |-> requeried, message |-> message, log |-> level]

\* _process_movie up to generate_poster
_process_movie(use_imdb, imdb_title, tmdb_title) ==
    LET search == _search_movie_with_imdb_primary(use_imdb, imdb_title, tmdb_title)
    IN IF search.escaped THEN Pass(search, "error", Nothing, FALSE, "none", "error")
       ELSE IF ~Found(search.data)
       THEN Pass(search, "notfound", Nothing, FALSE, "none", "warning")
       ELSE Pass(search, "render", search.data, FALSE, "none", "info")

\* _process_tv_series up to generate_poster, for a series name that is not
\* empty
_process_tv_series(use_imdb, imdb_tv, tmdb_title, tmdb_tv) ==
    LET search == _search_tv_series_with_imdb_primary(use_imdb, imdb_tv, tmdb_title, tmdb_tv)
        again == [search EXCEPT !.queried =
                     @ \o <<Call("tmdb", "search_tv_series")>>
                       \o (IF tmdb_tv.hit THEN <<Call("tmdb", "get_tv_series_details")>>
                           ELSE << >>)]
    IN IF search.escaped THEN Pass(search, "error", Nothing, FALSE, "none", "error")
       ELSE IF ~Found(search.data)
       THEN Pass(search, "notfound", Nothing, FALSE, "none", "warning")
       ELSE IF search.data.media_type # "tv"
       THEN IF ~tmdb_tv.hit THEN Pass(again, "render", search.data, TRUE, "none", "warning")
            ELSE IF Found(tmdb_tv.details)
            THEN Pass(again, "render", tmdb_tv.details, TRUE, "none", "warning")
            ELSE \* series_data is None: series_data['title'] raises
                 Pass(again, "error", Nothing, TRUE, "none", "error")
       ELSE Pass(search, "render", search.data, FALSE, "none", "info")

\* handle_movie_selection_callback from _get_media_details to
\* generate_poster, movie_data being what _get_media_details returned
Selected(out, data, message) ==
    [queried |-> << >>, escaped |-> FALSE, out |-> out, data |-> data,
     requeried |-> FALSE, message |-> message, log |-> "none"]

_select_media(movie_data) ==
    IF ~Found(movie_data) THEN Selected("notfound", Nothing, "Failed to get movie details")
    ELSE IF movie_data.title \in {"", "Unknown Title"}
    THEN Selected("incomplete", movie_data, "Incomplete movie information")
    ELSE Selected("render", movie_data, "none")

DetailAnswers ==
    TitleAnswers \cup { Media("movie", "", "url"), Media("movie", "Unknown Title", "url") }

\* the passes a step can run, with the answers of the providers
MoviePasses ==
    { [fn |-> "_process_movie", done |-> FALSE, wanted |-> "movie", use_imdb |-> u,
       imdb_title |-> i, tmdb_title |-> t]
        : u \in BOOLEAN, i \in [1..MaxCalls -> TitleAnswers],
          t \in [1..MaxCalls -> TitleAnswers \cup {Raised}] }
SeriesPasses ==
    { [fn |-> "_process_tv_series", done |-> FALSE, wanted |-> "tv", use_imdb |-> u,
       imdb_tv |-> i, tmdb_title |-> t, tmdb_tv |-> s]
        : u \in BOOLEAN, i \in ImdbTvAnswers,
          t \in [1..MaxCalls -> TitleAnswers \cup {Raised}], s \in TmdbTvAnswers }
SelectPasses ==
    { [fn |-> "_select_media", done |-> FALSE, wanted |-> d.media_type, movie_data |-> d]
        : d \in DetailAnswers }

MoviePass ==
    /\ applied.fn = "_process_movie"
    /\ Returns(_process_movie(applied.use_imdb, applied.imdb_title, applied.tmdb_title))

SeriesPass ==
    /\ applied.fn = "_process_tv_series"
    /\ Returns(_process_tv_series(applied.use_imdb, applied.imdb_tv, applied.tmdb_title,
                                  applied.tmdb_tv))

SelectPass ==
    /\ applied.fn = "_select_media"
    /\ Returns(_select_media(applied.movie_data))

\* ---------------------------------------------------- the title extractor
\* A text is a sequence of tokens, the parts of one line that whitespace
\* separates (the handlers pass extracted titles, whose whitespace is
\* collapsed).  The tokens stand for the forms the patterns of
\* file_detector.py tell apart; the texts hold no URL and stay below the
\* 100 characters after which _extract_title_and_year cuts.
ExtractTokens ==
    { "Dune", "It", "Cars2", "1080p", "(2021)", "[1984]", "2049", "2017",
      "S01E05", "1x07", "Season.2.Episode.3", "S04", "Season.6" }

Texts == UNION { [1..k -> ExtractTokens] : k \in 0..MaxTokens }

\* the year patterns: \((\d{4})\), \[(\d{4})\], and four digits alone
IsParenYear(tok) == tok = "(2021)"
IsBracketYear(tok) == tok = "[1984]"
IsBareYear(tok) == tok \in {"2049", "2017"}
NotParenYear(tok) == ~IsParenYear(tok)
NotBracketYear(tok) == ~IsBracketYear(tok)

\* int(match.group(1))
YearOf(tok) ==
    CASE tok = "(2021)" -> 2021
      [] tok = "[1984]" -> 1984
      [] tok = "2049" -> 2049
      [] tok = "2017" -> 2017
      [] OTHER -> 0

\* the result of the extractor; year 0 is None
Extracted(title, year) == [title |-> title, year |-> year]

\* "if cleaned and len(cleaned) > 2" fails
TooShort(cleaned) == cleaned = << >> \/ cleaned = <<"It">>

\* the position of the leftmost token of text that is one of tokens
Leftmost(text, tokens) ==
    CHOOSE i \in 1..Len(text) : text[i] \in tokens /\ \A j \in 1..(i - 1) : text[j] \notin tokens

\* _extract_title_and_year: the first year pattern that matches gives the
\* year, and re.sub removes every match of that one pattern
_extract_title_and_year(text) ==
    LET n == Len(text)
        found ==
            IF \E i \in 1..n : IsParenYear(text[i])
            THEN Extracted(SelectSeq(text, NotParenYear),
                           YearOf(text[Leftmost(text, {"(2021)"})]))
            ELSE IF \E i \in 1..n : IsBracketYear(text[i])
            THEN Extracted(SelectSeq(text, NotBracketYear),
                           YearOf(text[Leftmost(text, {"[1984]"})]))
            ELSE IF n >= 2 /\ IsBareYear(text[n])       \* \s+(\d{4})\s*$
            THEN Extracted(SubSeq(text, 1, n - 1), YearOf(text[n]))
            ELSE IF n >= 2 /\ IsBareYear(text[1])       \* ^(\d{4})\s+
            THEN Extracted(Tail(text), YearOf(text[1]))
            ELSE Extracted(text, 0)
    IN IF TooShort(found.title) THEN Extracted(<< >>, 0) ELSE found

\* season_patterns with the season-only forms first
season_only_first == <<"S01", "Season 1", "S01E01", "1x01", "Season 1 Episode 1">>

\* season_patterns of extract_season_series_info, in its order
season_patterns == <<"S01E01", "1x01", "Season 1 Episode 1", "S01", "Season 1">>

\* re.search(pattern, tok): [Ss](\d{1,2}) also matches the start of S01E05
\* and the end of Cars2, [Ss]eason[\s\.]?(\d{1,2}) the start of
\* Season.2.Episode.3
Matches(pattern, tok) ==
    CASE pattern = "S01E01" -> tok = "S01E05"
      [] pattern = "1x01" -> tok = "1x07"
      [] pattern = "Season 1 Episode 1" -> tok = "Season.2.Episode.3"
      [] pattern = "S01" -> tok \in {"S01E05", "S04", "Cars2"}
      [] pattern = "Season 1" -> tok \in {"Season.6", "Season.2.Episode.3"}
      [] OTHER -> FALSE

\* int(match.group(1))
SeasonOf(tok) ==
    CASE tok = "S01E05" -> 1
      [] tok = "1x07" -> 1
      [] tok = "Season.2.Episode.3" -> 2
      [] tok = "Cars2" -> 2
      [] tok = "S04" -> 4
      [] tok = "Season.6" -> 6
      [] OTHER -> 0

\* int(match.group(2)) of a pattern with two groups; 0 is None
EpisodeOf(pattern, tok) ==
    CASE pattern = "S01E01" -> 5
      [] pattern = "1x01" -> 7
      [] pattern = "Season 1 Episode 1" -> 3
      [] OTHER -> 0

\* the words a token leaves once its separators are spaces
Spaced(tok) ==
    CASE tok = "Season.6" -> <<"Season", "6">>
      [] tok = "Season.2.Episode.3" -> <<"Season", "2", "Episode", "3">>
      [] OTHER -> <<tok>>

\* the part of the matched token that precedes the match
Preceding(pattern, tok) == IF tok = "Cars2" THEN <<"Car">> ELSE << >>

RECURSIVE Flatten(_)
Flatten(text) == IF text = << >> THEN << >> ELSE Spaced(Head(text)) \o Flatten(Tail(text))

\* _extract_series_name: the pattern and all that follows it removed, the
\* quality words removed, the separators made spaces
_extract_series_name(filename, pattern) ==
    LET i == CHOOSE k \in 1..Len(filename) :
                 /\ Matches(pattern, filename[k])
                 /\ \A j \in 1..(k - 1) : ~Matches(pattern, filename[j])
    IN Flatten(SelectSeq(SubSeq(filename, 1, i - 1), KeepWord))
       \o Preceding(pattern, filename[i])

RECURSIVE TryPatterns(_, _)
\* the loop over season_patterns from the k-th pattern on
TryPatterns(filename, k) ==
    IF k > Len(season_patterns)
    THEN [is_series |-> FALSE, season |-> 0, episode |-> 0, series_name |-> << >>]
    ELSE IF \E i \in 1..Len(filename) : Matches(season_patterns[k], filename[i])
    THEN LET pattern == season_patterns[k]
             i == CHOOSE m \in 1..Len(filename) :
                     /\ Matches(pattern, filename[m])
                     /\ \A j \in 1..(m - 1) : ~Matches(pattern, filename[j])
         IN [is_series |-> TRUE, season |-> SeasonOf(filename[i]),
             episode |-> EpisodeOf(pattern, filename[i]),
             series_name |-> _extract_series_name(filename, pattern)]
    ELSE TryPatterns(filename, k + 1)

extract_season_series_info(filename) == TryPatterns(filename, 1)

\* the extractions a step can apply
TitleCalls == { [fn |-> "_extract_title_and_year", done |-> FALSE, text |-> t] : t \in Texts }
SeriesInfoCalls ==
    { [fn |-> "extract_season_series_info", done |-> FALSE, text |-> t] : t \in Texts }

ExtractTitle ==
    /\ applied.fn = "_extract_title_and_year"
    /\ Returns(_extract_title_and_year(applied.text))

ExtractSeriesInfo ==
    /\ applied.fn = "extract_season_series_info"
    /\ Returns(extract_season_series_info(applied.text))

\* ----------------------------------------------------------- the message
\* A message carries up to three sources of a title: its text, the file
\* name of its document or video, and its caption; << >> is a source that
\* is missing (None or "").  Telegram sets the text on text messages only
\* and the caption on media messages only.
Message(kind, text, file_name, caption) ==
    [kind |-> kind, text |-> text, file_name |-> file_name, caption |-> caption]

\* a file name is its tokens joined by dots, and an extension
FileTokens == { "Dune", "It", "1080p", "2017", "S01E05", "S04", "1x07" }
FileNames == UNION { [1..k -> FileTokens] : k \in 0..MaxTokens }

\* the patterns of _extract_tv_series_pattern, in its order
series_patterns == <<"S01E01", "S01", "Season 1">>

\* the marker part of a pattern matches in tok: s\d{1,2}(?!e\d) also
\* matches the S0 of S01E05
MarkerIn(pattern, tok) ==
    CASE pattern = "S01E01" -> tok \in {"S01E05", "Season.2.Episode.3"}
      [] pattern = "S01" -> tok \in {"S04", "S01E05"}
      [] pattern = "Season 1" -> tok \in {"Season.6", "Season.2.Episode.3"}
      [] OTHER -> FALSE

RECURSIVE BeforeQuality(_)
\* re.sub(r'\s*(?:1080p|720p|webrip|bluray|youthtrendx).*$', '', series_name)
BeforeQuality(words) ==
    IF words = << >> \/ IsQuality(Head(words)) THEN << >>
    ELSE <<Head(words)>> \o BeforeQuality(Tail(words))

RECURSIVE TrySeries(_, _)
\* the loop over the patterns from the k-th on: "^(.+?)" needs a character
\* before the marker, so a marker in the first token is not one
TrySeries(name, k) ==
    IF k > Len(series_patterns) THEN << >>
    ELSE LET at == { i \in 2..Len(name) : MarkerIn(series_patterns[k], name[i]) }
             first == CHOOSE i \in at : \A j \in at : i <= j
         IN IF at # {} /\ BeforeQuality(SubSeq(name, 1, first - 1)) # << >>
            THEN BeforeQuality(SubSeq(name, 1, first - 1))
            ELSE TrySeries(name, k + 1)

\* _extract_tv_series_pattern: the series name, << >> for ""
_extract_tv_series_pattern(name) == TrySeries(name, 1)

\* \b(19|20)\d{2}\b
IsFileYear(tok) == tok = "2017"
NotFileYear(tok) == ~IsFileYear(tok)

\* _extract_title_and_year_from_filename.  Removing the years leaves their
\* dots, where the match of ^([A-Za-z0-9]+(?:[.\-\s][A-Za-z0-9]+)*) ends; a
\* name that starts with a dot has no such match and is cleaned whole.
_extract_title_and_year_from_filename(file_name) ==
    LET series_match == _extract_tv_series_pattern(file_name)
        years == { i \in 1..Len(file_name) : IsFileYear(file_name[i]) }
        first == CHOOSE i \in years : \A j \in years : i <= j
        kept == IF years = {} THEN file_name
                ELSE IF first = 1 THEN SelectSeq(file_name, NotFileYear)
                ELSE SubSeq(file_name, 1, first - 1)
        cleaned == SelectSeq(kept, KeepWord)
    IN IF series_match # << >> THEN _extract_title_and_year(series_match)
       ELSE IF cleaned # << >>
       THEN Extracted(cleaned, IF years = {} THEN 0 ELSE YearOf(file_name[first]))
       ELSE Extracted(<< >>, 0)

\* what an extraction returns, and the sources that were read for it
Tried(result, used) == [title |-> result.title, year |-> result.year, used |-> used]

\* extract_movie_title; of_text, of_file and of_caption are what the
\* extractors return on the sources of the message
extract_movie_title(message, of_text, of_file, of_caption) ==
    LET named == message.file_name # << >>
        before == IF message.kind \in {"document", "video"} /\ named
                  THEN <<"filename">> ELSE << >>
    IN IF message.text # << >> THEN Tried(of_text, <<"text">>)
       ELSE IF message.kind = "document" /\ named /\ of_file.title # << >>
       THEN Tried(of_file, <<"filename">>)
       ELSE IF message.kind = "photo" /\ message.caption # << >>
       THEN Tried(of_caption, <<"caption">>)
       ELSE IF message.kind = "video" /\ message.caption # << >>
       THEN Tried(of_caption, <<"caption">>)
       ELSE IF message.kind = "video" /\ named /\ of_file.title # << >>
       THEN Tried(of_file, <<"filename">>)
       ELSE IF message.caption # << >> THEN Tried(of_caption, before \o <<"caption">>)
       ELSE Tried(Extracted(<< >>, 0), before)

\* extract_movie_title_with_caption_fallback
extract_movie_title_with_caption_fallback(message, of_text, of_file, of_caption) ==
    LET first == extract_movie_title(message, of_text, of_file, of_caption)
        second == IF first.title = << >> /\ message.caption # << >>
                  THEN Tried(of_caption, first.used \o <<"caption">>)
                  ELSE first
    IN IF second.title = << >> /\ message.text # << >>
       THEN Tried(of_text, second.used \o <<"text">>)
       ELSE second

\* handle_channel_message from the message to the ledger check it calls:
\* the title, the sources read for it, and the check of the branch taken
Dispatched(got, check) ==
    [title |-> got.title, year |-> got.year, used |-> got.used, check |-> check]

handle_channel_message(message) ==
    LET got == extract_movie_title_with_caption_fallback(
                   message, _extract_title_and_year(message.text),
                   _extract_title_and_year_from_filename(message.file_name),
                   _extract_title_and_year(message.caption))
    IN IF got.title = << >> THEN Dispatched(got, "none")
       ELSE IF extract_season_series_info(got.title).is_series
       THEN Dispatched(got, "_should_process_series")
       ELSE Dispatched(got, "_should_process_movie")

\* The length of a title.  A plain source is words of letters with one
\* space between them (dots in a file name, and an extension after them): no
\* pattern of the extractors matches in it.  A word is here the number of
\* its letters.
title_limit == 100
min_title_length == 2
MaxWords == 2
WordLengths == {1, 2, 50, 99, 100, 101}
PlainSources == UNION { [1..k -> WordLengths] : k \in 0..MaxWords }

RECURSIVE Length(_)
\* len(cleaned)
Length(words) ==
    IF words = << >> THEN 0
    ELSE Head(words) + (IF Len(words) > 1 THEN 1 ELSE 0) + Length(Tail(words))

RECURSIVE Slice(_, _)
\* cleaned[:n].strip()
Slice(words, n) ==
    IF words = << >> \/ n <= 0 THEN << >>
    ELSE IF Head(words) >= n THEN <<n>>
    ELSE <<Head(words)>> \o Slice(Tail(words), n - Head(words) - 1)

\* _extract_title_and_year on a plain source
_extract_title_and_year_plain(words) ==
    LET cleaned == Slice(words, title_limit)
    IN IF Length(cleaned) > min_title_length THEN Extracted(cleaned, 0)
       ELSE Extracted(<< >>, 0)

\* _extract_title_and_year_from_filename on a plain file name: the words as
\* they are
_extract_title_and_year_from_filename_plain(words) == Extracted(words, 0)

\* the messages a step can read
Captions == { << >>, <<"Dune">>, <<"It">>, <<"Dune", "S01E05">> }
MessagesOf(texts, file_names) ==
    { Message("text", t, << >>, << >>) : t \in texts \ {<< >>} }
    \cup { Message(k, << >>, f, c) : k \in {"document", "video"}, f \in file_names, c \in texts }
    \cup { Message("photo", << >>, << >>, c) : c \in texts }
Messages == MessagesOf(Captions, FileNames)
PlainMessages == MessagesOf(PlainSources, PlainSources)

TitleFromMessageCalls ==
    { [fn |-> "extract_movie_title_with_caption_fallback", done |-> FALSE,
       words |-> "tokens", message |-> m] : m \in Messages }
TitleFromPlainCalls ==
    { [fn |-> "extract_movie_title_with_caption_fallback", done |-> FALSE,
       words |-> "letters", message |-> m] : m \in PlainMessages }
DispatchCalls ==
    { [fn |-> "handle_channel_message", done |-> FALSE, message |-> m] : m \in Messages }

TitleFromMessage ==
    /\ applied.fn = "extract_movie_title_with_caption_fallback"
    /\ applied.words = "tokens"
    /\ Returns(extract_movie_title_with_caption_fallback(
                   applied.message, _extract_title_and_year(applied.message.text),
                   _extract_title_and_year_from_filename(applied.message.file_name),
                   _extract_title_and_year(applied.message.caption)))

TitleFromPlain ==
    /\ applied.fn = "extract_movie_title_with_caption_fallback"
    /\ applied.words = "letters"
    /\ Returns(extract_movie_title_with_caption_fallback(
                   applied.message, _extract_title_and_year_plain(applied.message.text),
                   _extract_title_and_year_from_filename_plain(applied.message.file_name),
                   _extract_title_and_year_plain(applied.message.caption)))

Dispatch ==
    /\ applied.fn = "handle_channel_message"
    /\ Returns(handle_channel_message(applied.message))

\* ------------------------------------------------------- the requests log
\* The movie_requests collection.  The handlers write it and never read it
\* (the /list commands do), so what a channel request does to it is a
\* function of the collection, the title, and how the request ends.  The
\* collection is the bag of its rows: the number of rows of each
\* (movie_title, processed).
MaxRows == 2
LogTitles == { <<"Dune">>, <<"dune">>, <<"Heat">> }
LogRow(movie_title, processed) == [movie_title |-> movie_title, processed |-> processed]
LogRows == { LogRow(LowerStrip(t), p) : t \in LogTitles, p \in BOOLEAN }

RECURSIVE Total(_, _)
\* the number of the rows of the collection that are in rows
Total(collection, rows) ==
    IF rows = {} THEN 0
    ELSE LET r == CHOOSE r \in rows : TRUE
         IN collection[r] + Total(collection, rows \ {r})

Collections == { c \in [LogRows -> 0..MaxRows] : Total(c, LogRows) <= MaxRows }

\* MovieDataManager.log_request: insert_one of a row that is not processed;
\* nothing when the collection is None or insert_one raises
log_request(collection, movie_title) ==
    IF store # "ok" THEN collection
    ELSE [collection EXCEPT ![LogRow(LowerStrip(movie_title), FALSE)] = @ + 1]

\* MovieDataManager.mark_as_processed: update_many sets processed on every
\* row of the title that is not processed
mark_as_processed(collection, movie_title) ==
    LET title == LowerStrip(movie_title)
    IN IF store # "ok" THEN collection
       ELSE [collection EXCEPT ![LogRow(title, TRUE)] = @ + collection[LogRow(title, FALSE)],
                               ![LogRow(title, FALSE)] = 0]

\* how a channel request for a movie ends: skipped by the ledger check, not
\* found, an error before the send, sent, or not sent by the fallback either
Ends == {"skipped", "notfound", "error", "sent", "sendfail"}

\* _process_movie reached mark_movie_processed
Commits(ends) == ends \in {"sent", "sendfail"}

\* handle_channel_message on the collection: log_movie_request before the
\* ledger check, mark_movie_processed at the end of _process_movie
channel_request_log(collection, movie_title, ends) ==
    LET logged == log_request(collection, movie_title)
    IN IF Commits(ends) THEN mark_as_processed(logged, movie_title) ELSE logged

LogCalls ==
    { [fn |-> "log_movie_request", done |-> FALSE, collection |-> c, movie_title |-> t,
       ends |-> e] : c \in Collections, t \in LogTitles, e \in Ends }

ChannelRequestLog ==
    /\ applied.fn = "log_movie_request"
    /\ Returns(channel_request_log(applied.collection, applied.movie_title, applied.ends))

\* ------------------------------------------------- the checks, called alone
\* The two checks of the channel flow called one after the other in one
\* process, as handle_channel_message calls them, with the accepted calls
\* written down next to them: for every key, the time of the last call that
\* returned True.
NoneAccepted == [fn |-> "_should_process", accepted |-> {}]

AcceptedAt(accepted, key) == (CHOOSE e \in accepted : e.key = key).at

WasAccepted(accepted, key) == \E e \in accepted : e.key = key

Recorded(accepted, key, ret) ==
    IF ret
    THEN { e \in accepted : e.key # key } \cup { [key |-> key, at |-> now] }
    ELSE accepted

\* await _should_process_movie(movie_title, message)
ShouldProcessMovie(title) ==
    /\ applied.fn = "_should_process"
    /\ LET c == _should_process_movie(title)
       IN /\ recently_processed' = c.rp
          /\ lastCall' = MovieCall(title, c)
          /\ applied' = [applied EXCEPT
                            !.accepted = Recorded(@, MovieKey(title), c.ret)]
    /\ lastDone' = NoDone
    /\ UNCHANGED <<now, store, POST_TO_CHANNEL, processed_series_cache, user_series_cache,
                   user_sessions, series_collection, req>>

\* await _should_process_series(series_info, message)
ShouldProcessSeries(name, season) ==
    /\ applied.fn = "_should_process"
    /\ LET c == _should_process_series(name, season)
       IN /\ recently_processed' = c.rp
          /\ processed_series_cache' = c.psc
          /\ lastCall' = SeriesCall("channel", name, season, c)
          /\ applied' = [applied EXCEPT
                            !.accepted = Recorded(@, SeriesKey(LowerStrip(name), season), c.ret)]
    /\ lastDone' = NoDone
    /\ UNCHANGED <<now, store, POST_TO_CHANNEL, user_series_cache, user_sessions,
                   series_collection, req>>

\* ------------------------------------------------------- specifications
\* The process after start-up: the handlers idle, and no function or the
\* arguments of one function to apply.
Init ==
    /\ Stopped
    /\ \/ applied \in {NoApply} \cup SearchCalls \cup MediaCalls \cup MoviePasses
                      \cup SeriesPasses \cup SelectPasses \cup TitleCalls \cup SeriesInfoCalls
                      \cup TitleFromMessageCalls \cup DispatchCalls
       \/ applied \in TitleFromPlainCalls
       \/ applied \in LogCalls
       \/ applied = NoneAccepted

\* Each specification runs the handlers it is about, one request at a time
\* in slot "a" unless it is about concurrency, on the inputs named with it,
\* or applies the functions it is about to every argument within the bounds.

\* The channel flow under a running clock: store connected, posting to the
\* channel.
LedgerInit == Stopped /\ applied = NoApply /\ store = "ok" /\ POST_TO_CHANNEL

LedgerNext ==
    \/ \E title \in MovieTitles, res \in Resolutions : ChannelMovie("a", title, res)
    \/ \E name \in SeriesNames, season \in Seasons, res \in Resolutions :
          ChannelSeries("a", name, season, res)
    \/ SendOk("a")
    \/ SendFail("a")
    \/ Tick

LedgerSpec == LedgerInit /\ [][LedgerNext]_vars

\* The series flows against a store that fails, recovers and outlives the
\* process.
StoreTitles == { <<"Heat">> }
StoreSeasons == {1}
StoreInit == Stopped /\ applied = NoApply /\ POST_TO_CHANNEL

StoreNext ==
    \/ \E title \in StoreTitles, res \in Resolutions : ChannelMovie("a", title, res)
    \/ \E name \in SeriesNames, season \in StoreSeasons, res \in Resolutions :
          ChannelSeries("a", name, season, res)
    \/ \E name \in SeriesNames, season \in StoreSeasons, res \in Resolutions :
          PrivateSeries("a", name, season, res)
    \/ SendOk("a")
    \/ EditFail("a")
    \/ SendFail("a")
    \/ Tick
    \/ StoreDown
    \/ StoreUp
    \/ Restart

StoreSpec == StoreInit /\ [][StoreNext]_vars

\* Every flow in both posting modes, the clock and the store left alone.
FlowTitles == { <<"Dune">>, <<"Heat">> }
FlowNames == { <<"Lost">>, << >> }
FlowSeasons == {1}
FlowInit == Stopped /\ applied = NoApply /\ store = "ok"

FlowNext ==
    \/ \E title \in FlowTitles, res \in Resolutions : ChannelMovie("a", title, res)
    \/ \E name \in FlowNames, season \in FlowSeasons, res \in Resolutions :
          ChannelSeries("a", name, season, res)
    \/ \E name \in FlowNames, season \in FlowSeasons, res \in Resolutions :
          PrivateSeries("a", name, season, res)
    \/ \E title \in FlowTitles, res \in Resolutions : PrivateMovie(title, res)
    \/ \E res \in Resolutions : SelectCallback("a", res)
    \/ \E title \in FlowTitles, res \in Resolutions : IdSend("a", title, res)
    \/ SendOk("a")
    \/ EditFail("a")
    \/ SendFail("a")
    \/ \E ok \in BOOLEAN : Fallback("a", ok)

FlowSpec == FlowInit /\ [][FlowNext]_vars

\* Two handlers suspended at the same time, in the channel flow and in the
\* private series flow, under a running clock.
ConcTitles == { <<"Dune">>, <<"dune", "1080p">> }
ConcNames == { <<"Lost">>, <<"lost">> }
ConcSeasons == {1}

ConcNext ==
    \/ \E r \in Req, title \in ConcTitles, res \in Resolutions : ChannelMovie(r, title, res)
    \/ \E r \in Req, name \in ConcNames, season \in ConcSeasons, res \in Resolutions :
          ChannelSeries(r, name, season, res)
    \/ \E r \in Req, name \in ConcNames, season \in ConcSeasons, res \in Resolutions :
          PrivateSeries(r, name, season, res)
    \/ \E r \in Req : SendOk(r)
    \/ \E r \in Req : EditFail(r)
    \/ \E r \in Req : SendFail(r)
    \/ Tick

ConcSpec == LedgerInit /\ [][ConcNext]_vars

\* The searches, on every list of results within the bounds.
SearchInit == Stopped /\ store = "ok" /\ POST_TO_CHANNEL /\ applied \in SearchCalls \cup MediaCalls

SearchNext ==
    \/ PrivateSearch
    \/ MediaSearch

SearchSpec == SearchInit /\ [][SearchNext]_vars

\* The passes of the channel flow and of the selection, on every answer of
\* the providers within the bounds.
PassInit ==
    Stopped /\ store = "ok" /\ POST_TO_CHANNEL
    /\ applied \in MoviePasses \cup SeriesPasses \cup SelectPasses

PassNext ==
    \/ MoviePass
    \/ SeriesPass
    \/ SelectPass

PassSpec == PassInit /\ [][PassNext]_vars

\* The extractor, on every text within the bounds.
ExtractInit ==
    Stopped /\ store = "ok" /\ POST_TO_CHANNEL /\ applied \in TitleCalls \cup SeriesInfoCalls

ExtractNext ==
    \/ ExtractTitle
    \/ ExtractSeriesInfo

ExtractSpec == ExtractInit /\ [][ExtractNext]_vars

\* The extraction of the title from a message and the branch the channel
\* handler takes on it, on every message within the bounds.
MessageInit ==
    Stopped /\ store = "ok" /\ POST_TO_CHANNEL
    /\ \/ applied \in TitleFromMessageCalls \cup DispatchCalls
       \/ applied \in TitleFromPlainCalls

MessageNext ==
    \/ TitleFromMessage
    \/ TitleFromPlain
    \/ Dispatch

MessageSpec == MessageInit /\ [][MessageNext]_vars

\* The requests log, on every collection within the bounds, with the store
\* connected or not.
LogInit == Stopped /\ POST_TO_CHANNEL /\ applied \in LogCalls

LogNext == ChannelRequestLog

LogSpec == LogInit /\ [][LogNext]_vars

\* The selection of one user: the search that stores the session and two
\* selection callbacks that can be suspended at the same time.
SessionInit == Stopped /\ applied = NoApply /\ store = "ok"

SessionNext ==
    \/ \E title \in FlowTitles, res \in Resolutions : PrivateMovie(title, res)
    \/ \E r \in Req, res \in Resolutions : SelectCallback(r, res)
    \/ \E r \in Req : SendOk(r)
    \/ \E r \in Req : EditFail(r)
    \/ \E r \in Req : SendFail(r)

SessionSpec == SessionInit /\ [][SessionNext]_vars

\* The checks of the channel flow called alone under a running clock, store
\* connected.
CheckNames == { <<"Lost">>, << >> }
CheckSeasons == {1}
CheckInit == Stopped /\ store = "ok" /\ POST_TO_CHANNEL /\ applied = NoneAccepted

CheckNext ==
    \/ \E title \in MovieTitles : ShouldProcessMovie(title)
    \/ \E name \in CheckNames, season \in CheckSeasons : ShouldProcessSeries(name, season)
    \/ Tick

CheckSpec == CheckInit /\ [][CheckNext]_vars

Next ==
    \/ \E r \in Req, title \in MovieTitles, res \in Resolutions : ChannelMovie(r, title, res)
    \/ \E r \in Req, name \in SeriesNames, season \in Seasons, res \in Resolutions :
          ChannelSeries(r, name, season, res)
    \/ \E r \in Req, name \in SeriesNames, season \in Seasons, res \in Resolutions :
          PrivateSeries(r, name, season, res)
    \/ \E title \in MovieTitles, res \in Resolutions : PrivateMovie(title, res)
    \/ \E r \in Req, res \in Resolutions : SelectCallback(r, res)
    \/ \E r \in Req, title \in MovieTitles, res \in Resolutions : IdSend(r, title, res)
    \/ \E r \in Req : SendOk(r)
    \/ \E r \in Req : EditFail(r)
    \/ \E r \in Req : SendFail(r)
    \/ \E r \in Req, ok \in BOOLEAN : Fallback(r, ok)
    \/ Tick
    \/ StoreDown
    \/ StoreUp
    \/ Restart
    \/ PrivateSearch
    \/ MediaSearch
    \/ MoviePass
    \/ SeriesPass
    \/ SelectPass
    \/ ExtractTitle
    \/ ExtractSeriesInfo
    \/ TitleFromMessage
    \/ TitleFromPlain
    \/ Dispatch
    \/ ChannelRequestLog
    \/ \E title \in MovieTitles : ShouldProcessMovie(title)
    \/ \E name \in SeriesNames, season \in Seasons : ShouldProcessSeries(name, season)

Spec == Init /\ [][Next]_vars

\* ----------------------------------------------------------------- claims
\* the ledger key of a request
KeyOf(q) ==
    IF q.kind = "movie" THEN MovieKey(q.title)
    ELSE SeriesKey(LowerStrip(q.title), q.season)

\* the marker of the series check or series request (name, season)
MarkerOf(name, season) == Row(LowerStrip(name), season)

\* a series commit made while the store is reachable leaves its marker
Written ==
    (lastDone.commit = "series" /\ store = "ok")
        => MarkerOf(lastDone.title, lastDone.season) \in series_collection

\* a series check made while the store is reachable on a marked
\* (series, season) returns false
Blocks ==
    (lastCall.op = "series" /\ store = "ok"
        /\ MarkerOf(lastCall.name, lastCall.season) \in series_collection)
        => ~lastCall.ret

\* C1: a series commit made while the store is reachable leaves the marker
\* of its normalized (series, season) in the collection; no step removes a
\* marker; and every series check (channel or private flow) made while the
\* store is reachable on a (series, season) whose marker is in the
\* collection returns false, whatever the clock, the other keys and the
\* in-memory caches (emptied by a restart) are.
C1_DurableMarkerBlocks ==
    [][Written' /\ Blocks' /\ series_collection \subseteq series_collection']_vars

\* C1 witness: a check rejected by the marker alone: the caches hold
\* nothing for the key (the process restarted) and the clock has run to
\* its end
C1_BlockedAfterRestart ==
    /\ lastCall.op = "series"
    /\ lastCall.flow = "channel"
    /\ store = "ok"
    /\ MarkerOf(lastCall.name, lastCall.season) \in series_collection
    /\ ~lastCall.cached
    /\ ~lastCall.ret
    /\ now = MaxTime

\* C2: a movie check made while the short-term cache holds no other key
\* returns true when the key has no entry (the first call) or its entry,
\* written by the most recent accepted call, is at least movie_cooldown old,
\* and false when the entry is younger; sends and commits made in between
\* change nothing of it.
C2_MovieCooldown ==
    [][(lastCall'.op = "movie" /\ Keys(recently_processed) \subseteq {lastCall'.key})
         => (lastCall'.ret <=>
               (~Has(recently_processed, lastCall'.key)
                \/ now - TimeOf(recently_processed, lastCall'.key) >= movie_cooldown))]_vars

\* C2 witness: the title is accepted again: its key was in the cache, alone
C2_Readmitted ==
    /\ lastCall.op = "movie"
    /\ lastCall.cached
    /\ lastCall.ret
    /\ Keys(recently_processed) = {lastCall.key}

C4_OneSeasonRequest ==
    \A r1, r2 \in Req :
        (r1 # r2 /\ InFlight(r1) /\ InFlight(r2)
            /\ req[r1].kind = "series" /\ req[r2].kind = "series"
            /\ req[r1].check = "true" /\ req[r2].check = "true")
        => KeyOf(req[r1]) # KeyOf(req[r2])

\* C5: the short-term cache never holds more than
\* max_cache_entries + cleanup_batch_size entries.
C5_CacheBounded == Len(recently_processed) <= max_cache_entries + cleanup_batch_size

\* the time of key k once the checked key is written at the current time
TimeWith(k, key) == IF k = key THEN now ELSE TimeOf(recently_processed, k)

\* C6: an accepted movie check that brings the short-term cache above
\* max_cache_entries removes exactly cleanup_batch_size entries, none of them
\* newer than an entry it keeps; an accepted check that does not bring it
\* above the maximum removes nothing; a rejected check leaves it as it was.
C6_Eviction ==
    [][lastCall'.op = "movie" =>
         LET key == lastCall'.key
             written == Keys(recently_processed) \cup {key}
             kept == Keys(recently_processed')
             removed == written \ kept
         IN IF ~lastCall'.ret THEN recently_processed' = recently_processed
            ELSE /\ kept \subseteq written
                 /\ \A k \in kept : TimeOf(recently_processed', k) = TimeWith(k, key)
                 /\ IF Cardinality(written) > max_cache_entries
                    THEN /\ Cardinality(removed) = cleanup_batch_size
                         /\ \A k \in removed, j \in kept :
                               TimeWith(k, key) <= TimeWith(j, key)
                    ELSE removed = {}]_vars

\* C6 witness: an eviction that had entries of different ages to choose
\* from
C6_Evicted ==
    /\ lastCall.op = "movie"
    /\ lastCall.ret
    /\ lastCall.evicted = cleanup_batch_size
    /\ \E k \in Keys(recently_processed) : TimeOf(recently_processed, k) < now

\* C7: a channel series check on a (series, season) that has no marker in
\* the store and whose short-term entry is at least series_cooldown old
\* (the request accepted then ended without a commit) returns true.
C7_SeriesRetry ==
    (lastCall.op = "series" /\ lastCall.flow = "channel"
        /\ MarkerOf(lastCall.name, lastCall.season) \notin series_collection
        /\ Has(recently_processed, lastCall.key)
        /\ now - TimeOf(recently_processed, lastCall.key) >= series_cooldown)
        => lastCall.ret

\* C8: a channel-flow request that committed had rendered its poster and
\* had a send of it succeed.
C8_CommitAfterSend ==
    (lastDone.flow = "channel" /\ lastDone.commit # "none")
        => (lastDone.rendered /\ lastDone.sent >= 1)

\* the flows that run a ledger check: the channel flow and the private
\* series flow
Checks(flow, kind) == flow = "channel" \/ (flow = "private" /\ kind = "series")

C10_FailOpen ==
    (lastCall.op \in {"movie", "series"} /\ store # "ok" /\ ~lastCall.cached)
        => lastCall.ret

\* C10 witness: a series whose marker is in the collection is accepted
\* because the store raises
C10_AcceptedDespiteMarker ==
    /\ lastCall.op = "series"
    /\ store = "raising"
    /\ MarkerOf(lastCall.name, lastCall.season) \in series_collection
    /\ ~lastCall.cached
    /\ lastCall.ret

\* ---------------------------------------------------- claims of the search
\* a search returned a list (search_media returns none when it raises)
Searched ==
    /\ applied.fn \in {"_search_with_imdb_primary", "search_media"}
    /\ applied.done
    /\ ~applied.out.escaped

SharesKey(results) ==
    \E i, j \in 1..Len(results) : i # j /\ DedupKey(results[i]) = DedupKey(results[j])

\* the records a search got from its providers, the primary ones first
Gathered ==
    (IF applied.fn = "search_media" \/ applied.use_imdb THEN applied.imdb ELSE << >>)
    \o Convert(applied.tmdb_tv, "tv") \o Convert(applied.tmdb_movies, "movie")

\* C11: on every path of the interactive search, the path after an internal
\* error included, no two returned candidates share the key (lower-cased
\* title, release year), and each candidate is the earliest record of its
\* key among the records gathered.
C11_CandidatesUnique ==
    Searched =>
        /\ ~SharesKey(applied.out.results)
        /\ \A i \in 1..Len(applied.out.results) :
              \E j \in 1..Len(Gathered) :
                 /\ Gathered[j] = applied.out.results[i]
                 /\ \A k \in 1..(j - 1) : DedupKey(Gathered[k]) # DedupKey(Gathered[j])

\* the providers a search queried
Queried(provider) ==
    \E i \in 1..Len(applied.out.queried) : applied.out.queried[i] = provider
SecondaryQueried == Queried("tmdb_tv") \/ Queried("tmdb_movies")

\* the count of the primary results and the minimum it is compared with
PrimaryCount ==
    IF applied.fn = "search_media" \/ applied.use_imdb THEN Len(applied.imdb) ELSE 0
Minimum == IF applied.fn = "search_media" THEN applied.limit ELSE min_primary_results

SearchDone ==
    applied.fn \in {"_search_with_imdb_primary", "search_media"} /\ applied.done

ChannelPassDone == applied.fn \in {"_process_movie", "_process_tv_series"} /\ applied.done
PassDone == ChannelPassDone \/ (applied.fn = "_select_media" /\ applied.done)

\* C13: a pass for a movie that ends not found has queried no provider a
\* second time.
C13_NotFoundWithoutRequery ==
    (applied.fn = "_process_movie" /\ applied.done /\ applied.out.out = "notfound") =>
        \A i, j \in 1..Len(applied.out.queried) :
            i # j => applied.out.queried[i][1] # applied.out.queried[j][1]

\* C14: in the channel flow a record whose kind differs from the detected
\* kind reaches the renderer only after the providers were asked again for
\* the wanted kind, for a detected series and for a detected movie.
C14_KindCheckedBeforeRender ==
    (ChannelPassDone /\ applied.out.out = "render"
        /\ applied.out.data.media_type # applied.wanted) => applied.out.requeried

\* C15: no exception leaves the resolution function of the channel flow,
\* whatever the providers raise or return.
C15_NoExceptionEscapes == ChannelPassDone => ~applied.out.escaped

\* C16: the renderer is never called with a record that lacks its title or
\* its poster URL.
C16_RenderedComplete ==
    (PassDone /\ applied.out.out = "render") =>
        applied.out.data.title # "" /\ applied.out.data.poster_url # ""

\* C17: a pass that ends not found or with an incomplete record has sent a
\* final message to the user or the channel.
C17_FinalMessage ==
    (PassDone /\ applied.out.out \in {"notfound", "incomplete"}) =>
        applied.out.message # "none"

\* ---------------------------------------------------- claims of the commit
\* C18: a commit that persists no marker, because the store raises or is
\* not connected, writes an error report.
C18_CommitFailureReported ==
    (lastDone.commit # "none" /\ store # "ok") => lastDone.report = "error"

\* ---------------------------------------------------- claims of the extractor
\* C19: a second pass of the extractor over the title it produced returns
\* the same title, finds no year, and finds no series marker that the text
\* did not have.
C19_SecondPassFindsNothing ==
    (applied.fn = "_extract_title_and_year" /\ applied.done /\ applied.out.title # << >>) =>
        /\ _extract_title_and_year(applied.out.title) = Extracted(applied.out.title, 0)
        /\ extract_season_series_info(applied.out.title).is_series
              => extract_season_series_info(applied.text).is_series

\* the marker forms that carry an episode, and the places where one matches
WithEpisode == {"S01E01", "1x01", "Season 1 Episode 1"}
SeasonOnly == {"S01", "Season 1"}
MatchesAt(forms, text) ==
    { i \in 1..Len(text) : \E pattern \in forms : Matches(pattern, text[i]) }

InfoDone == applied.fn = "extract_season_series_info" /\ applied.done

\* C20: the season+episode forms are tried before the season-only forms and
\* the first form that matches anywhere decides: with a season+episode
\* marker in the text the result has the season and the episode of a
\* marker of that kind, with season-only markers alone it has that season
\* and no episode, with no marker it is not a series, and series_name is the
\* cleaned text before the marker used.
C20_MarkerPriority ==
    InfoDone =>
        LET text == applied.text
            info == applied.out
            both == MatchesAt(WithEpisode, text)
            only == MatchesAt(SeasonOnly, text)
            used == IF both # {} THEN both ELSE only
        IN /\ info.is_series <=> (both \cup only # {})
           /\ info.is_series =>
                 \E i \in used :
                    /\ info.season = SeasonOf(text[i])
                    /\ info.episode # 0 <=> both # {}
                    /\ info.series_name =
                          Flatten(SelectSeq(SubSeq(text, 1, i - 1), KeepWord))
                          \o (IF text[i] = "Cars2" THEN <<"Car">> ELSE << >>)

C20_EpisodeBeatsEarlierSeason ==
    /\ InfoDone
    /\ Len(applied.text) = 3
    /\ applied.text[1] = "S04"
    /\ applied.text[3] = "S01E05"
    /\ applied.out.season = 1
    /\ applied.out.episode = 5
    /\ Len(applied.out.series_name) = 2

\* C21: whenever extract_season_series_info returns is_series true, the
\* series_name it returns is not empty.
C21_SeriesNameNonEmpty ==
    (InfoDone /\ applied.out.is_series) => applied.out.series_name # << >>

\* --------------------------------------------------- claims of the message
\* the title was extracted from a message of plain sources
PlainDone ==
    /\ applied.fn = "extract_movie_title_with_caption_fallback"
    /\ applied.words = "letters"
    /\ applied.done

\* C22: whichever source of the message the title is taken from (text,
\* caption or file name), the extracted title has at most title_limit
\* characters.
C22_TitleWithinLimit == PlainDone => Length(applied.out.title) <= title_limit

\* the title was extracted from a message
MessageDone ==
    /\ applied.fn = "extract_movie_title_with_caption_fallback"
    /\ applied.words = "tokens"
    /\ applied.done

\* the file name, the caption of the message yields a title
FileYields(message) ==
    /\ message.file_name # << >>
    /\ _extract_title_and_year_from_filename(message.file_name).title # << >>
CaptionYields(message) ==
    /\ message.caption # << >>
    /\ _extract_title_and_year(message.caption).title # << >>

\* the extraction read the source
Read(source) == \E i \in 1..Len(applied.out.used) : applied.out.used[i] = source

\* C23: the extraction reads the file name first when the message has one,
\* reads the caption only if the file name yields no title, and reads the
\* text only if neither yields a title.
C23_FilenameCaptionText ==
    MessageDone =>
        /\ applied.message.file_name # << >> => applied.out.used[1] = "filename"
        /\ Read("caption") => ~FileYields(applied.message)
        /\ Read("text") => ~FileYields(applied.message) /\ ~CaptionYields(applied.message)

\* C28: a document whose file name holds a marker that
\* extract_season_series_info recognises, and whose title is taken from
\* that file name, goes to _should_process_series, not to
\* _should_process_movie.
C28_MarkerTakesSeriesBranch ==
    (applied.fn = "handle_channel_message" /\ applied.done
        /\ applied.message.kind = "document"
        /\ applied.out.used = <<"filename">>
        /\ extract_season_series_info(applied.message.file_name).is_series)
        => applied.out.check = "_should_process_series"

\* ------------------------------------------------ claims of the requests log
LogDone == applied.fn = "log_movie_request" /\ applied.done

\* the rows of the collection for a normalized title
RowsOf(collection, title) == collection[LogRow(title, FALSE)] + collection[LogRow(title, TRUE)]

OneRowEach(collection) == \A t \in LogTitles : RowsOf(collection, LowerStrip(t)) <= 1

\* C24: a channel request leaves at most one row per normalized title in a
\* collection that had at most one, and a request that is skipped as a
\* duplicate or ends not found leaves no row for a title that had none.
C24_OneRowPerCompletedTitle ==
    LogDone =>
        /\ OneRowEach(applied.collection) => OneRowEach(applied.out)
        /\ (applied.ends \in {"skipped", "notfound"}
              /\ RowsOf(applied.collection, LowerStrip(applied.movie_title)) = 0)
             => RowsOf(applied.out, LowerStrip(applied.movie_title)) = 0

\* --------------------------------------------------- claims of the sends
\* the send to the primary destination of the request that ended failed
PrimaryFailed ==
    /\ lastDone.tried >= 1
    /\ ~(lastDone.tried = 1 /\ lastDone.sent = 1)

\* C25: in the channel flow, with POST_TO_CHANNEL true or false, a request
\* whose send to the primary destination failed made exactly one further
\* send, to the fallback destination.
C25_OneFallbackSend ==
    (lastDone.flow = "channel" /\ PrimaryFailed) => lastDone.tried = 2

\* ------------------------------------------------ claims of the ledger frame
\* C26: a movie or series check that returns false leaves
\* recently_processed and processed_series_cache as they were, and an entry
\* is written or given a new time only for the key of a check that returns
\* true: a rejected duplicate does not refresh the timestamp.
C26_RejectedLeavesLedger ==
    [][/\ (lastCall'.op # "none" /\ ~lastCall'.ret)
            => /\ recently_processed' = recently_processed
               /\ processed_series_cache' = processed_series_cache
       /\ \A k \in Keys(recently_processed') :
             (~Has(recently_processed, k)
                 \/ TimeOf(recently_processed', k) # TimeOf(recently_processed, k))
             => (lastCall'.key = k /\ lastCall'.ret)
       /\ \A k \in processed_series_cache' \ processed_series_cache :
             lastCall'.key = k /\ lastCall'.ret]_vars

\* C26 witness: a movie rejected some time after it was accepted, its entry
\* still at the time of the accepted call
C26_RejectedKeepsTime ==
    /\ lastCall.op = "movie"
    /\ ~lastCall.ret
    /\ Has(recently_processed, lastCall.key)
    /\ TimeOf(recently_processed, lastCall.key) < now

\* ------------------------------------------- claims of the season ledger
\* C27: the series key is (series name, season) only: once a request for
\* an episode of a season has been accepted, every later request for an
\* episode of that season is rejected in the same process.
C27_FirstEpisodeOnly ==
    [][(lastCall'.op = "series" /\ WasAccepted(applied.accepted, lastCall'.key))
          => ~lastCall'.ret]_vars

\* ------------------------------------------- claims of the movie cooldown
\* C29: within one process, two accepted movie checks of one key are at
\* least movie_cooldown apart, whatever other movie and series keys were
\* recorded between them.
C29_AcceptedCooldownApart ==
    [][(lastCall'.op = "movie" /\ lastCall'.ret
            /\ WasAccepted(applied.accepted, lastCall'.key))
          => now' - AcceptedAt(applied.accepted, lastCall'.key) >= movie_cooldown]_vars

\* ------------------------------------------- claims of the selection session
Selecting(r) == req[r].flow = "select" /\ req[r].pc = "send"

\* a selection callback that has sent a poster leaves no session
SentRemovesSession ==
    (lastDone'.flow = "select" /\ lastDone'.sent = 1) => ~user_sessions'.live

\* with no session, no callback passes the lookup, and the callback that
\* makes it answers "expired"
NoSessionExpired ==
    ~user_sessions.live
        => /\ \A r \in Req : req[r] = Idle => ~Selecting(r)'
           /\ (lastDone'.flow = "select" /\ req' = req) => lastDone'.out = "expired"

\* right after a callback passed the lookup, while it is suspended at its
\* send, no other callback passes the lookup
OneLookupPasses ==
    \A r \in Req : \A o \in Req \ {r} :
        (Selecting(o) /\ lastDone = NoDone /\ req[r] = Idle) => ~Selecting(r)'

\* C30: one selection session sends at most one poster.  A selection
\* callback that has sent a poster leaves no session; later callbacks find
\* no session and answer "expired"; and of two callbacks handled at the same
\* time for one session, at most one passes the session lookup and sends.
C30_OnePosterPerSession ==
    [][SentRemovesSession /\ NoSessionExpired /\ OneLookupPasses]_vars
====
